---- MODULE Spec2Model ----
(***************************************************************************)
(* SBU-Reporter: the roster loader, the usage matrix builder and the       *)
(* aggregation transforms of the sbu package, as state machines.           *)
(*                                                                         *)
(* A table (pandas DataFrame) is a sequence of rows in index order; a row  *)
(* is a record of its cells.  A float cell is <<>> for NaN ("no data") and *)
(* <<v>> for the number v.  Usage is counted in whole hours, durations of  *)
(* the accounting tool in seconds.                                         *)
(***************************************************************************)
EXTENDS Integers, Sequences, FiniteSets, TLC

VARIABLES
    pc,        \* position of the run: start, loaded, collect, built, rolled, cumulated,
               \* percent, failed
    df,        \* the roster table / usage matrix (df1 of sbu_workflow)
    project,   \* the project filter handed to get_sbu
    interval,  \* the bounds <<start, end>> handed to get_sbu
    k,         \* get_sbu: position of the loop `for u in df.index`
    nrec,      \* number of usage records the collector has returned so far
    df2,       \* result of get_sbu_per_project
    df3,       \* result of get_agregated_sbu
    df4,       \* result of get_percentage_sbu
    stub,      \* hours per user and month a stub accounting tool returns, 0 without a stub
    err,       \* the exception that ended the run, "" when none
    calls,     \* the external commands invoked so far, in order
    vIndex,    \* validate_usernames called on its own: df.index
    vLines,    \* ... the lines of the accinfo output
    vRes,      \* ... its outcome
    aggIn,     \* get_agregated_sbu called on its own: the argument
    aggOut,    \* ... the returned table
    pctIn,     \* get_percentage_sbu called on its own: the argument
    pctOut,    \* ... the returned table, of either revision of the function
    dIn,       \* get_date_range called on its own: today and the two bounds
    dOut,      \* ... its outcome, and the outcome of calling it again on its result
    dMonths,   \* ... the Month columns get_sbu allocates for its result
    yIn,       \* yaml_to_pandas called on its own: the roster file
    yOut,      \* ... its outcome and the commands it invoked
    paIn,      \* parse_accuse called on its own: the accuse output and the project filter
    paOut,     \* ... the returned usage
    mIn,       \* the merge of get_sbu on its own: a row of the matrix and the usage
    mOut,      \* ... its outcome
    _GLOBVAR,  \* globvar.py: the dictionary of column keys
    aliases,   \* ... the module-level names ACTIVE, NAME, PI, PROJECT, SBU_REQUESTED, TMP
    gIn,       \* ... the column_dict of the last update_globals call
    gErr,      \* ... the exception it raised, "" when none
    gCalls,    \* ... the number of update_globals calls so far
    wPc,       \* sbu_workflow: its position
    wArgs,     \* ... its arguments and the default project of the roster
    wCall,     \* ... the arguments get_sbu received
    wFiles,    \* ... the output files on disk
    wErr       \* ... the exception that ended it, "" when none

vars ==
    <<pc, df, project, interval, k, nrec, df2, df3, df4, stub, err, calls, vIndex, vLines,
      vRes, aggIn, aggOut, pctIn, pctOut, dIn, dOut, dMonths, yIn, yOut, paIn, paOut, mIn,
      mOut, _GLOBVAR, aliases, gIn, gErr, gCalls, wPc, wArgs, wCall, wFiles, wErr>>

pipeVars == <<pc, df, project, interval, k, nrec, df2, df3, df4, stub, err, calls>>
validateVars == <<vIndex, vLines, vRes>>
aggVars == <<aggIn, aggOut>>
pctVars == <<pctIn, pctOut>>
dateVars == <<dIn, dOut, dMonths>>
yamlVars == <<yIn, yOut>>
accuseVars == <<paIn, paOut>>
mergeVars == <<mIn, mOut>>
globVars == <<_GLOBVAR, aliases, gIn, gErr, gCalls>>
workflowVars == <<wPc, wArgs, wCall, wFiles, wErr>>
\* The variables of the functions called on their own.
unitVars ==
    <<validateVars, aggVars, pctVars, dateVars, yamlVars, accuseVars, mergeVars, globVars,
      workflowVars>>

(***************************************************************************)
(* Bounds of the model.                                                    *)
(***************************************************************************)
NMonths == 2      \* Month columns of the reported interval
MaxHours == 1     \* largest duration of one accounting row, in hours
MaxLines == 3     \* lines of an accinfo output
MaxStubMonths == 3   \* Month columns of a run against the stub accounting tool
MaxUpdates == 2      \* update_globals calls of one run

(***************************************************************************)
(* Values of the program.                                                  *)
(***************************************************************************)
SecondsPerHour == 3600     \* 60**2
ActiveThreshold == 1       \* the 1.0 of `df[('Month', 'sum')] > 1.0`
Decimals == 2              \* ret['Month'].round(2)
PercentFactor == 100       \* ret['Month'] *= 100

Users == {"u1", "u2"}
Projects == {"A", "B"}
Quotas == {500, 1000}
None == "None"
NaNStr == "NaN"            \* NaN in a column of strings
Marker == "# Users linked to this account"

NaN == <<>>
Num(v) == <<v>>
IsNaN(c) == c = NaN
Nz(c) == IF c = NaN THEN 0 ELSE c[1]

\* The display name the roster file gives a user.
DisplayName(u) ==
    CASE u = "u1" -> "Donald Duck"
      [] u = "u2" -> "Daisy Duck"
      [] OTHER -> "Mickey Mouse"

\* Python's ordering of the strings used as row labels.
NameOrder == <<"A", "B", "sum", "u1", "u2", "u9">>
Rank(s) == CHOOSE i \in 1..Len(NameOrder) : NameOrder[i] = s

RECURSIVE SumSeq(_)
SumSeq(s) == IF s = <<>> THEN 0 ELSE Head(s) + SumSeq(Tail(s))

\* pandas sum(skipna=True): NaN cells count as zero, an all-NaN selection sums to 0.
nansum(cells) == SumSeq([i \in 1..Len(cells) |-> Nz(cells[i])])

(***************************************************************************)
(* parse_yaml.py: validate_usernames                                       *)
(***************************************************************************)
\* filter(None, _usage.splitlines())
NonEmptyLines(lines) ==
    LET Keep(l) == l /= "" IN SelectSeq(lines, Keep)

HasMarker(lines) == \E i \in 1..Len(lines) : lines[i] = Marker

\* The for loop: everything the iterator still holds after the marker line.
UsageAfterMarker(lines) ==
    LET ls == NonEmptyLines(lines)
        first == CHOOSE i \in 1..Len(ls) : ls[i] = Marker /\ \A j \in 1..(i - 1) : ls[j] /= Marker
    IN SubSeq(ls, first + 1, Len(ls))

InSeq(x, s) == \E i \in 1..Len(s) : s[i] = x

NoError == [raised |-> FALSE, parse |-> FALSE, minus |-> <<>>, plus |-> <<>>]

\* usage[~np.isin(usage, df.index)]: the "- name" lines of the message.
MinusNames(index, usage) ==
    LET Missing(n) == ~InSeq(n, index) IN SelectSeq(usage, Missing)

\* As PlusNames, the roster users missing from accinfo not reported.
PlusNamesDropped(index, usage) == <<>>

\* df.index[~np.isin(df.index, usage)]: the "+ name" lines of the message.
PlusNames(index, usage) ==
    LET Missing(n) == ~InSeq(n, usage) IN SelectSeq(index, Missing)

validate_usernames(index, lines) ==
    IF ~HasMarker(NonEmptyLines(lines))
    THEN [raised |-> TRUE, parse |-> TRUE, minus |-> <<>>, plus |-> <<>>]
    ELSE LET usage == UsageAfterMarker(lines)
             minus == MinusNames(index, usage)
             plus == PlusNames(index, usage)
         IN IF minus \o plus /= <<>>
            THEN [raised |-> TRUE, parse |-> FALSE, minus |-> minus, plus |-> plus]
            ELSE NoError

(***************************************************************************)
(* parse_yaml.py: yaml_to_pandas                                           *)
(***************************************************************************)
\* A roster file: its projects in file order, each with a quota and its users.
YamlEntries == [code : Projects, quota : Quotas, users : SUBSET Users]
YamlFiles ==
    {<<e>> : e \in YamlEntries}
        \cup {y \in {<<e1, e2>> : e1 \in YamlEntries, e2 \in YamlEntries} : y[1].code /= y[2].code}

\* data[k2] = {...}: a user listed under two projects keeps the later one.
LastEntry(yaml, u) ==
    yaml[CHOOSE i \in 1..Len(yaml) :
            /\ u \in yaml[i].users
            /\ \A j \in (i + 1)..Len(yaml) : u \notin yaml[j].users]

YamlRow(yaml, u) ==
    LET e == LastEntry(yaml, u)
    IN [user |-> u, name |-> DisplayName(u), project |-> e.code, quota |-> Num(e.quota),
        active |-> FALSE, month |-> <<>>, sum |-> NaN]

\* As RowLeq, the rows ordered by username only.
RowLeqByUser(r1, r2) == Rank(r1.user) <= Rank(r2.user)

\* df.sort_values(by=[PROJECT, TMP])
RowLeq(r1, r2) ==
    \/ Rank(r1.project) < Rank(r2.project)
    \/ Rank(r1.project) = Rank(r2.project) /\ Rank(r1.user) <= Rank(r2.user)

RECURSIVE SortRows(_)
SortRows(S) ==
    IF S = {} THEN <<>>
    ELSE LET r == CHOOSE x \in S : \A y \in S : RowLeq(x, y)
         IN <<r>> \o SortRows(S \ {r})

yaml_to_pandas(yaml) ==
    SortRows({YamlRow(yaml, u) : u \in UNION {yaml[i].users : i \in 1..Len(yaml)}})

Index(d) == [i \in 1..Len(d) |-> d[i].user]

\* The outputs of the accinfo command.
AccinfoLines == {Marker, "", "u1", "u2", "u9"}
AccinfoOutputs == UNION {[1..n -> AccinfoLines] : n \in 0..MaxLines}

(***************************************************************************)
(* parse_yaml.py: yaml_to_pandas on roster files that may be malformed     *)
(***************************************************************************)
\* The value of a project's 'SBU requested' key: a number, text that is not a
\* number, or null.
RawQuotas ==
    {[kind |-> "number", v |-> q] : q \in Quotas}
        \cup {[kind |-> "text", v |-> 0], [kind |-> "null", v |-> 0]}

\* A project of the file; has_users is false when it has no 'users' key.
RawEntries ==
    {e \in [code : Projects, quota : RawQuotas, has_users : BOOLEAN, users : SUBSET Users] :
        ~e.has_users => e.users = {}}
RawYamlFiles ==
    {<<e>> : e \in RawEntries}
        \cup {y \in {<<e1, e2>> : e1 \in RawEntries, e2 \in RawEntries} : y[1].code /= y[2].code}

\* As ConversionFails, every value converted.
ConversionNeverFails(q) == FALSE

\* df[SBU_REQUESTED].astype(float) raises ValueError on text that is not a number.
ConversionFails(q) == q.kind = "text"

\* ... and turns a number into itself, null into NaN.
AsFloat(q) == IF q.kind = "number" THEN Num(q.v) ELSE NaN

RawRow(yaml, u) ==
    LET e == LastEntry(yaml, u)
    IN [user |-> u, name |-> DisplayName(u), project |-> e.code, quota |-> AsFloat(e.quota),
        active |-> FALSE, month |-> <<>>, sum |-> NaN]

ListedUsers(yaml) == UNION {yaml[i].users : i \in 1..Len(yaml)}

\* As LoadRoster, the usernames of the table not validated.
LoadRosterUnvalidated(yaml, out) ==
    IF \E i \in 1..Len(yaml) : ~yaml[i].has_users
    THEN [raised |-> "KeyError", rows |-> <<>>, calls |-> <<>>]
    ELSE IF ListedUsers(yaml) = {}
    THEN [raised |-> "KeyError", rows |-> <<>>, calls |-> <<>>]
    ELSE IF \E u \in ListedUsers(yaml) : ConversionFails(LastEntry(yaml, u).quota)
    THEN [raised |-> "ValueError", rows |-> <<>>, calls |-> <<>>]
    ELSE [raised |-> "", rows |-> SortRows({RawRow(yaml, u) : u \in ListedUsers(yaml)}),
          calls |-> <<>>]

\* The call from its first line to its last: the loop over the projects (v1['users']
\* raises KeyError), the table (without a row it has no quota column: KeyError), the
\* conversion of the quota column, the sort, and validate_usernames on the output
\* `out` of accinfo.
LoadRoster(yaml, out) ==
    IF \E i \in 1..Len(yaml) : ~yaml[i].has_users
    THEN [raised |-> "KeyError", rows |-> <<>>, calls |-> <<>>]
    ELSE IF ListedUsers(yaml) = {}
    THEN [raised |-> "KeyError", rows |-> <<>>, calls |-> <<>>]
    ELSE IF \E u \in ListedUsers(yaml) : ConversionFails(LastEntry(yaml, u).quota)
    THEN [raised |-> "ValueError", rows |-> <<>>, calls |-> <<>>]
    ELSE LET rows == SortRows({RawRow(yaml, u) : u \in ListedUsers(yaml)})
         IN IF validate_usernames(Index(rows), out).raised
            THEN [raised |-> "ValueError", rows |-> <<>>, calls |-> <<<<"accinfo">>>>]
            ELSE [raised |-> "", rows |-> rows, calls |-> <<<<"accinfo">>>>]

(***************************************************************************)
(* dataframe.py: parse_accuse                                              *)
(***************************************************************************)
\* The data rows of the accuse output (the lines left by usage[2:-1], less the
\* header line and the row dropped by df_tmp.drop(0)): Month, Account and the two
\* durations SBU's and Restituted, in seconds.
Durations == {h * SecondsPerHour : h \in 0..MaxHours}
AccuseRows ==
    {r \in [Month : 1..NMonths, Account : Projects, used : Durations, rest : {0, SecondsPerHour}] :
        r.rest <= r.used}
AccuseOutputs ==
    {<<>>} \cup {<<r>> : r \in AccuseRows} \cup {<<r1, r2>> : r1 \in AccuseRows, r2 \in AccuseRows}

\* As NetHours, the seconds divided by 60 only.
NetMinutes(r) == (r.used - r.rest) \div 60

\* df_tmp[user] = df_tmp["SBU's"] - df_tmp['Restituted']; df_tmp[user] /= 60**2
NetHours(r) == (r.used - r.rest) \div SecondsPerHour

\* As DroppedLabels, with the filter left out.
NoLabelDropped(out, proj) == {}

\* df_tmp.index[df_tmp['Account'] != project]: the index of df_tmp is its Month
\* column, so the rows of another account are named by their month labels.
DroppedLabels(out, proj) ==
    IF proj = None THEN {} ELSE {out[i].Month : i \in {j \in 1..Len(out) : out[j].Account /= proj}}

\* df_tmp.drop(labels): drop removes every row that carries one of the labels,
\* so a row of the project goes too when its month is also the month of a row
\* of another account.
KeepRow(r, out, proj) == r.Month \notin DroppedLabels(out, proj)

\* The one-row frame parse_accuse returns: its columns (months) and values, in order.
parse_accuse(out, proj) ==
    LET Keep(r) == KeepRow(r, out, proj)
        kept == SelectSeq(out, Keep)
    IN [i \in 1..Len(kept) |-> [Month |-> kept[i].Month, hours |-> NetHours(kept[i])]]

(***************************************************************************)
(* dataframe.py: _parse_date and get_date_range                            *)
(*                                                                         *)
(* A string is the sequence of its fields, the pieces between its '-'      *)
(* separators; a field is the sequence of its digits.  "22-10-2018" is     *)
(* <<<<2, 2>>, <<1, 0>>, <<2, 0, 1, 8>>>>, the empty string is <<<<>>>>.       *)
(***************************************************************************)
\* The values a bound of the interval can be.
NoneBound == [type |-> "NoneType", value |-> 0, fields |-> <<>>]
IntBound(n) == [type |-> "int", value |-> n, fields |-> <<>>]
StrBound(f) == [type |-> "str", value |-> 0, fields |-> f]
OtherBound == [type |-> "float", value |-> 0, fields |-> <<>>]

\* '{:d}'.format(n) and str(n), for n >= 0
RECURSIVE Digits(_)
Digits(n) == IF n < 10 THEN <<n>> ELSE Append(Digits(n \div 10), n % 10)

\* As TwoDigits, the month without its leading zero.
PlainDigits(n) == Digits(n)

\* today.strftime('%m')
TwoDigits(n) == <<n \div 10, n % 10>>

\* input_date.count('-')
dash_count(fields) == Len(fields) - 1

Returned(fields) == [raised |-> "", str |-> fields]
Raised(e) == [raised |-> e, str |-> <<>>]

\* As FormatYear, the year alone.
FormatYearOnly(n) == <<Digits(n)>>

\* '01-01-{:d}'.format(input_date)
FormatYear(n) == <<<<0, 1>>, <<0, 1>>, Digits(n)>>

\* As ParseString, every string returned as it is.
ParseStringUnchecked(fields, default_month) == Returned(fields)

\* As ParseString, the default month placed last.
ParseStringMonthLast(fields, default_month) ==
    IF dash_count(fields) = 0 THEN Returned(<<<<0, 1>>>> \o fields \o <<default_month>>)
    ELSE IF dash_count(fields) = 1 THEN Returned(<<<<0, 1>>>> \o fields)
    ELSE IF dash_count(fields) = 2 THEN Returned(fields)
    ELSE Raised("ValueError")

\* The branch `isinstance(input_date, str)`, lines 481-489.
ParseString(fields, default_month) ==
    IF dash_count(fields) = 0 THEN Returned(<<<<0, 1>>, default_month>> \o fields)
    ELSE IF dash_count(fields) = 1 THEN Returned(<<<<0, 1>>>> \o fields)
    ELSE IF dash_count(fields) = 2 THEN Returned(fields)
    ELSE Raised("ValueError")

_parse_date(input_date, default_month, default_year) ==
    IF input_date.type = "int" THEN Returned(FormatYear(input_date.value))
    ELSE IF input_date.type = "NoneType" THEN Returned(<<<<0, 1>>, default_month, default_year>>)
    ELSE IF input_date.type = "str" THEN ParseString(input_date.fields, default_month)
    ELSE Raised("TypeError")

\* year = str(int(today.strftime('%Y')) + 1)
DefaultYear(today) == Digits(today.year + 1)

\* The call raises what the first failing _parse_date raises, the start parsed first.
get_date_range(today, start, end) ==
    LET month == TwoDigits(today.month)
        year == DefaultYear(today)
        s == _parse_date(start, <<0, 1>>, year)
        e == _parse_date(end, month, year)
    IN IF s.raised /= "" THEN [raised |-> s.raised, start |-> <<>>, end |-> <<>>]
       ELSE IF e.raised /= "" THEN [raised |-> e.raised, start |-> <<>>, end |-> <<>>]
       ELSE [raised |-> "", start |-> s.str, end |-> e.str]

\* The dates date.today() returns.
Todays == {[year |-> 2019, month |-> m] : m \in {1, 11}}

\* The bounds handed in: None, years as integers, strings with 0 to 3 separators,
\* and a value of another type.
DateInputs ==
    {NoneBound, IntBound(2019), IntBound(19), OtherBound,
     StrBound(<<<<2, 0, 1, 9>>>>),
     StrBound(<<<<0, 5>>, <<2, 0, 1, 9>>>>),
     StrBound(<<<<5>>, <<2, 0, 1, 9>>>>),
     StrBound(<<<<2, 2>>, <<1, 0>>, <<2, 0, 1, 8>>>>),
     StrBound(<<<<2, 2>>, <<1, 2>>, <<2, 0, 1, 8>>>>),
     StrBound(<<<<2, 0, 1, 8>>, <<1, 0>>, <<2, 2>>>>),
     StrBound(<<<<2, 2>>, <<1, 0>>, <<2, 0, 1, 8>>, <<0, 1>>>>)}

(***************************************************************************)
(* dataframe.py: get_sbu, the Month columns of the resolved interval       *)
(***************************************************************************)
\* The number a field of digits writes.
RECURSIVE Val(_)
Val(f) == IF f = <<>> THEN 0 ELSE 10 * Val(SubSeq(f, 1, Len(f) - 1)) + f[Len(f)]

Widths(fields) == [i \in 1..Len(fields) |-> Len(fields[i])]

\* pd.date_range turns its string bounds into timestamps: a date with its year first
\* is read as year-month-day; a date with its year last is read month first, and day
\* first only when its first field cannot be a month.
Timestamp(fields) ==
    IF Widths(fields) = <<4, 2, 2>>
    THEN [year |-> Val(fields[1]), month |-> Val(fields[2]), day |-> Val(fields[3])]
    ELSE IF Val(fields[1]) <= 12
         THEN [year |-> Val(fields[3]), month |-> Val(fields[1]), day |-> Val(fields[2])]
         ELSE [year |-> Val(fields[3]), month |-> Val(fields[2]), day |-> Val(fields[1])]

\* The strings whose reading is modelled: DD-MM-YYYY and YYYY-MM-DD with fields that
\* name a date.
Parsable(fields) ==
    /\ Widths(fields) \in {<<2, 2, 4>>, <<4, 2, 2>>}
    /\ Timestamp(fields).month \in 1..12
    /\ Timestamp(fields).day \in 1..28

MonthNumber(t) == 12 * t.year + (t.month - 1)

\* freq=MonthBegin(): the range starts at the first day-one of a month that is not
\* before the start date.
FirstMonthBegin(t) == IF t.day = 1 THEN MonthNumber(t) ELSE MonthNumber(t) + 1

\* str(i)[:7], the label 'YYYY-MM' of a column, as <<year, month>>
MonthLabel(n) == <<n \div 12, (n % 12) + 1>>

\* pd.date_range(sy, ey, freq=pd.offsets.MonthBegin()): the labels of the Month
\* columns lines 141-142 add, in order.
date_range(sy, ey) ==
    LET first == FirstMonthBegin(Timestamp(sy))
        last == MonthNumber(Timestamp(ey))
    IN [i \in 1..(last - first + 1) |-> MonthLabel(first + i - 1)]

(***************************************************************************)
(* dataframe.py: get_sbu                                                   *)
(***************************************************************************)
\* As EmptyCell, the new columns filled with zero.
ZeroCell == Num(0)

\* df[('Month', str(i)[:7])] = np.nan
EmptyCell == NaN

\* for i in date_range: df[('Month', str(i)[:7])] = np.nan, for a range of n months
AddColumns(d, n) ==
    [i \in 1..Len(d) |-> [d[i] EXCEPT !.month = [m \in 1..n |-> EmptyCell]]]

AddMonthColumns(d) == AddColumns(d, NMonths)

\* DataFrame.update reindexes its argument like df: duplicate column labels raise.
DuplicateColumns(recs) ==
    \E i, j \in 1..Len(recs) : i < j /\ recs[i].Month = recs[j].Month

\* df.update(other) on the row of user i: every cell `other` has a value for is
\* overwritten, every other cell is kept.
Update(d, i, recs) ==
    [d EXCEPT ![i].month =
        [m \in 1..Len(d[i].month) |->
            IF \E j \in 1..Len(recs) : recs[j].Month = m
            THEN Num(recs[CHOOSE j \in 1..Len(recs) : recs[j].Month = m].hours)
            ELSE d[i].month[m]]]

\* As AddSumColumn, the row sum taken without skipping NaN.
AddSumColumnNoSkip(d) ==
    [i \in 1..Len(d) |->
        [d[i] EXCEPT !.sum =
            IF \E m \in 1..Len(d[i].month) : IsNaN(d[i].month[m]) THEN NaN
            ELSE Num(nansum(d[i].month))]]

\* df[('Month', 'sum')] = df['Month'].sum(axis=1)
AddSumColumn(d) ==
    [i \in 1..Len(d) |-> [d[i] EXCEPT !.sum = Num(nansum(d[i].month))]]

\* slice_.groupby(slice_.index).aggregate(sum).sum(): the quotas are grouped by the
\* row label of the table, which is the username.
GroupLabel(r) == r.user

RECURSIVE SumOverSet(_, _)
SumOverSet(S, d) ==
    IF S = {} THEN 0
    ELSE LET g == CHOOSE x \in S : TRUE
             InGroup(r) == GroupLabel(r) = g
             grp == SelectSeq(d, InGroup)
         IN nansum([i \in 1..Len(grp) |-> grp[i].quota]) + SumOverSet(S \ {g}, d)

_get_total_sbu_requested(d) ==
    SumOverSet({GroupLabel(d[i]) : i \in 1..Len(d)}, d)

\* df.loc['sum'] = np.nan; df.loc['sum', 'Month'] = df['Month'].sum(axis=0).values;
\* df.at['sum', PROJECT] = 'sum'; df.at['sum', SBU_REQUESTED] = _get_total_sbu_requested(df)
AddSumRow(d) ==
    LET months == 1..Len(d[1].month)
        blank == [user |-> "sum", name |-> NaNStr, project |-> NaNStr, quota |-> NaN,
                  active |-> FALSE, month |-> [m \in months |-> NaN], sum |-> NaN]
        d1 == Append(d, blank)
        n == Len(d1)
        d2 == [d1 EXCEPT ![n].month =
                    [m \in months |-> Num(nansum([i \in 1..n |-> d1[i].month[m]]))],
                  ![n].sum = Num(nansum([i \in 1..n |-> d1[i].sum]))]
        d3 == [d2 EXCEPT ![n].project = "sum"]
    IN [d3 EXCEPT ![n].quota = Num(_get_total_sbu_requested(d3))]

\* As IsActive, the threshold included.
IsActiveFromThreshold(total) == Nz(total) >= ActiveThreshold

IsActive(total) == Nz(total) > ActiveThreshold

\* df[ACTIVE] = False; df.loc[df[('Month', 'sum')] > 1.0, ACTIVE] = True
MarkActive(d) ==
    [i \in 1..Len(d) |-> [d[i] EXCEPT !.active = IsActive(d[i].sum)]]

(***************************************************************************)
(* The run: roster, matrix, rollup, cumulative table.                      *)
(***************************************************************************)
Fail(e) ==
    /\ pc' = "failed"
    /\ err' = e

\* yaml_to_pandas, with the validate_usernames call that ends it.
YamlToPandas ==
    /\ pc = "start"
    /\ \E yaml \in YamlFiles, out \in AccinfoOutputs :
          LET rows == yaml_to_pandas(yaml) IN
          IF rows = <<>>
          THEN /\ Fail("KeyError")
               /\ UNCHANGED <<df, calls>>
          ELSE /\ calls' = Append(calls, <<"accinfo">>)
               /\ IF validate_usernames(Index(rows), out).raised
                  THEN Fail("ValueError") /\ UNCHANGED df
                  ELSE pc' = "loaded" /\ df' = rows /\ UNCHANGED err
    /\ UNCHANGED <<project, interval, k, nrec, df2, df3, df4, stub>>
    /\ UNCHANGED unitVars

\* check_output raises when the accinfo command fails.
AccinfoFails ==
    /\ pc = "start"
    /\ \E yaml \in YamlFiles : yaml_to_pandas(yaml) /= <<>>
    /\ calls' = Append(calls, <<"accinfo">>)
    /\ Fail("CalledProcessError")
    /\ UNCHANGED <<df, project, interval, k, nrec, df2, df3, df4, stub>>
    /\ UNCHANGED unitVars

\* The bounds get_sbu is called with: both absent, or one of them not parseable.
GetSbuBounds ==
    {NoneBound, OtherBound, StrBound(<<<<2, 2>>, <<1, 0>>, <<2, 0, 1, 8>>, <<0, 1>>>>)}

\* get_sbu up to its loop: the interval is resolved, then the Month columns are
\* added, filled with NaN.
GetSbuBegin ==
    /\ pc = "loaded"
    /\ \E start \in GetSbuBounds, end \in GetSbuBounds, today \in Todays :
          /\ interval' = <<start, end>>
          /\ IF get_date_range(today, start, end).raised /= ""
             THEN /\ Fail(get_date_range(today, start, end).raised)
                  /\ UNCHANGED <<df, project, k>>
             ELSE /\ \E p \in Projects \cup {None} : project' = p
                  /\ df' = AddMonthColumns(df)
                  /\ k' = 1
                  /\ pc' = "collect"
                  /\ UNCHANGED err
    /\ UNCHANGED <<nrec, df2, df3, df4, stub, calls>>
    /\ UNCHANGED unitVars

\* As LoopUser, the index walked from its last row.
LoopUserLastFirst(d, n) == Index(d)[Len(d) + 1 - n]

\* `for u in df.index`: the user of the n-th pass of the loop.
LoopUser(d, n) == Index(d)[n]

\* One pass of `for u in df.index: df.update(parse_accuse(u, sy, ey, project))`.
GetSbuUser ==
    /\ pc = "collect"
    /\ k <= Len(df)
    /\ calls' = Append(calls, <<"accuse", LoopUser(df, k)>>)
    /\ \E out \in AccuseOutputs :
          LET recs == parse_accuse(out, project) IN
          IF DuplicateColumns(recs)
          THEN Fail("ValueError") /\ UNCHANGED <<df, k, nrec>>
          ELSE /\ df' = Update(df, k, recs)
               /\ k' = k + 1
               /\ nrec' = nrec + Len(recs)
               /\ UNCHANGED <<pc, err>>
    /\ UNCHANGED <<project, interval, df2, df3, df4, stub>>
    /\ UNCHANGED unitVars

\* check_output raises when the accuse command fails.
AccuseFails ==
    /\ pc = "collect"
    /\ k <= Len(df)
    /\ calls' = Append(calls, <<"accuse", LoopUser(df, k)>>)
    /\ Fail("CalledProcessError")
    /\ UNCHANGED <<df, project, interval, k, nrec, df2, df3, df4, stub>>
    /\ UNCHANGED unitVars

\* get_sbu after its loop: the sum column, the sum row, the active flags.
GetSbuEnd ==
    /\ pc = "collect"
    /\ k > Len(df)
    /\ df' = MarkActive(AddSumRow(AddSumColumn(df)))
    /\ pc' = "built"
    /\ UNCHANGED <<project, interval, k, nrec, df2, df3, df4, stub, err, calls>>
    /\ UNCHANGED unitVars

(***************************************************************************)
(* dataframe_postprocess.py: get_sbu_per_project                           *)
(***************************************************************************)
RECURSIVE SortNames(_)
SortNames(S) ==
    IF S = {} THEN <<>>
    ELSE LET n == CHOOSE x \in S : \A y \in S : Rank(x) <= Rank(y)
         IN <<n>> \o SortNames(S \ {n})

\* The rows of df_tmp (df indexed by its project column) with label p.
Members(d, p) ==
    LET InProject(r) == r.project = p IN SelectSeq(d, InProject)

\* The aggregate 'first': the first cell of the group that is not NaN.
First(cells) ==
    IF \A i \in 1..Len(cells) : IsNaN(cells[i]) THEN NaN
    ELSE cells[CHOOSE i \in 1..Len(cells) :
                  ~IsNaN(cells[i]) /\ \A j \in 1..(i - 1) : IsNaN(cells[j])]

\* As GroupSum, the Month columns reduced like the info columns, by 'first'.
GroupFirst(cells) == First(cells)

\* The aggregate `sum` of a Month column over a group: groupby maps the builtin
\* to its own sum, which skips NaN and gives 0 for a group of NaN only.
GroupSum(cells) == Num(nansum(cells))

\* As _get_active_name, the condition not applied.
_get_active_name_unfiltered(d, index) ==
    IF index = "sum" THEN <<>>
    ELSE LET grp == Members(d, index) IN [i \in 1..Len(grp) |-> grp[i].name]

\* tuple(slice_[condition].tolist()), slice_ the NAME column of the group
_get_active_name(d, index) ==
    IF index = "sum" THEN <<>>
    ELSE LET grp == Members(d, index)
             Active(r) == r.active = TRUE
             act == SelectSeq(grp, Active)
         IN [i \in 1..Len(act) |-> act[i].name]

ProjectRow(d, p) ==
    LET grp == Members(d, p)
    IN [project |-> p,
        quota |-> First([i \in 1..Len(grp) |-> grp[i].quota]),
        active |-> _get_active_name(d, p),
        month |-> [m \in 1..Len(grp[1].month) |->
                      GroupSum([i \in 1..Len(grp) |-> grp[i].month[m]])],
        sum |-> GroupSum([i \in 1..Len(grp) |-> grp[i].sum])]

get_sbu_per_project(d) ==
    LET keys == SortNames({d[i].project : i \in 1..Len(d)})
    IN [g \in 1..Len(keys) |-> ProjectRow(d, keys[g])]

(***************************************************************************)
(* dataframe_postprocess.py: get_agregated_sbu                             *)
(***************************************************************************)
\* As CumSum, NaN not skipped: every cell from the first NaN on is NaN.
CumSumNoSkip(cells) ==
    [i \in 1..Len(cells) |->
        IF \E j \in 1..i : IsNaN(cells[j]) THEN NaN ELSE Num(nansum(SubSeq(cells, 1, i)))]

\* np.cumsum(ret['Month'], axis=1) is DataFrame.cumsum(axis=1): the running sum
\* skips NaN cells and leaves them NaN.
CumSum(cells) ==
    [i \in 1..Len(cells) |->
        IF IsNaN(cells[i]) THEN NaN ELSE Num(nansum(SubSeq(cells, 1, i)))]

\* As LastColumn, the first column taken.
FirstColumn(cells) == cells[1]

\* ret[SUM] = ret['Month'].iloc[:, -1]
LastColumn(cells) == cells[Len(cells)]

AgregatedRow(r) ==
    [r EXCEPT !.month = CumSum(r.month), !.sum = LastColumn(CumSum(r.month))]

get_agregated_sbu(d) == [i \in 1..Len(d) |-> AgregatedRow(d[i])]

(***************************************************************************)
(* dataframe_postprocess.py and dataframe.py: get_percentage_sbu           *)
(***************************************************************************)
\* A float that need not be a whole number: n / d.
Frac(n, d) == <<n, d>>

\* numpy's rint of n / d, for n >= 0 and d > 0: to the nearest integer, a tie to the
\* even one.
RoundHalfEven(n, d) ==
    LET q == n \div d
        r == n % d
    IN IF 2 * r < d THEN q
       ELSE IF 2 * r > d THEN q + 1
       ELSE IF q % 2 = 0 THEN q ELSE q + 1

\* sbu.dataframe.get_percentage_sbu, the revision the package does not export:
\* ret['Month'] /= quota; ret['Month'] *= 100; ret['Month'] = ret['Month'].round()
PercentCell(c, quota) ==
    IF IsNaN(c) \/ IsNaN(quota) THEN NaN
    ELSE Frac(RoundHalfEven(PercentFactor * c[1], quota[1]), 1)

\* As RatioCell, the ratio multiplied by 100 before it is rounded.
RatioCellTimesHundred(c, quota) ==
    IF IsNaN(c) \/ IsNaN(quota) THEN NaN
    ELSE Frac(RoundHalfEven(PercentFactor * (10 ^ Decimals) * c[1], quota[1]), 10 ^ Decimals)

\* sbu.get_percentage_sbu, of dataframe_postprocess.py:
\* ret['Month'] /= quota; ret['Month'] = ret['Month'].round(2)
RatioCell(c, quota) ==
    IF IsNaN(c) \/ IsNaN(quota) THEN NaN
    ELSE Frac(RoundHalfEven((10 ^ Decimals) * c[1], quota[1]), 10 ^ Decimals)

dataframe_get_percentage_sbu(d) ==
    [i \in 1..Len(d) |->
        [d[i] EXCEPT !.month = [m \in 1..Len(d[i].month) |-> PercentCell(d[i].month[m], d[i].quota)],
                     !.sum = PercentCell(d[i].sum, d[i].quota)]]

get_percentage_sbu(d) ==
    [i \in 1..Len(d) |->
        [d[i] EXCEPT !.month = [m \in 1..Len(d[i].month) |-> RatioCell(d[i].month[m], d[i].quota)],
                     !.sum = RatioCell(d[i].sum, d[i].quota)]]

\* As Copied, had the function worked on the table it was given: `ret = df`.
Aliased(d, ret) == ret

\* df.set_index(PROJECT, inplace=False) and `ret = df.copy()`: the function
\* works on a new table `ret`; Copied(d, ret) is the table d it was given as
\* the call leaves it.
Copied(d, ret) == d

GetSbuPerProject ==
    /\ pc = "built"
    /\ df2' = get_sbu_per_project(df)
    /\ df' = Copied(df, df2')
    /\ pc' = "rolled"
    /\ UNCHANGED <<project, interval, k, nrec, df3, df4, stub, err, calls>>
    /\ UNCHANGED unitVars

GetAgregatedSbu ==
    /\ pc = "rolled"
    /\ df3' = get_agregated_sbu(df2)
    /\ df2' = Copied(df2, df3')
    /\ pc' = "cumulated"
    /\ UNCHANGED <<df, project, interval, k, nrec, df4, stub, err, calls>>
    /\ UNCHANGED unitVars

(***************************************************************************)
(* globvar.py: the column keys and their module-level aliases              *)
(***************************************************************************)
\* The names of the aliases, in the order of the assignment that binds them.
GlobKeys == <<"ACTIVE", "NAME", "PI", "PROJECT", "SBU_REQUESTED", "TMP">>

\* Python values: a string, a list (not hashable), a tuple of values.
Str(t) == [type |-> "str", text |-> t, items |-> <<>>]
List == [type |-> "list", text |-> "", items |-> <<>>]
Tuple(items) == [type |-> "tuple", text |-> "", items |-> items]
Column(t) == Tuple(<<Str("info"), Str(t)>>)

\* _GLOBVAR as the module defines it: a dictionary, its items in insertion order.
DefaultGlobvar ==
    <<[key |-> "ACTIVE", value |-> Column("active")],
      [key |-> "NAME", value |-> Column("name")],
      [key |-> "PI", value |-> Column("PI")],
      [key |-> "PROJECT", value |-> Column("project")],
      [key |-> "SBU_REQUESTED", value |-> Column("SBU requested")],
      [key |-> "TMP", value |-> Column("tmp")]>>

\* str.lower on the column names of the model.
Lower(t) ==
    IF t = "PI" THEN "pi"
    ELSE IF t = "SBU requested" THEN "sbu requested"
    ELSE t

\* The lowered column names of the model in the order Python compares strings.
Alphabetical ==
    <<"active", "name", "pi", "project", "sbu requested", "tmp", "username">>

\* _by_values(tup): the last value of the tuple, lowered; as its rank among the
\* strings, which is what the sort compares.
_by_values(tup) ==
    CHOOSE i \in 1..Len(Alphabetical) : Alphabetical[i] = Lower(tup.items[Len(tup.items)].text)

\* sorted(_GLOBVAR.values(), key=_by_values): a stable sort of the values.
sorted_values(g) ==
    LET Before(i, j) == \/ _by_values(g[i].value) < _by_values(g[j].value)
                        \/ _by_values(g[i].value) = _by_values(g[j].value) /\ i < j
        Place(i) == 1 + Cardinality({j \in 1..Len(g) : Before(j, i)})
    IN [n \in 1..Len(g) |-> g[CHOOSE i \in 1..Len(g) : Place(i) = n].value]

\* ACTIVE, NAME, PI, PROJECT, SBU_REQUESTED, TMP = <values>: the n-th name is
\* bound to the n-th value.
Unpack(vals) ==
    [K \in {GlobKeys[n] : n \in 1..Len(GlobKeys)} |->
        vals[CHOOSE n \in 1..Len(GlobKeys) : GlobKeys[n] = K]]

\* _populate_globals(): unpacking raises ValueError, and binds nothing, unless
\* there are exactly as many values as names.
_populate_globals(g, a) ==
    IF Len(g) = Len(GlobKeys)
    THEN [raised |-> "", aliases |-> Unpack(sorted_values(g))]
    ELSE [raised |-> "ValueError", aliases |-> a]

\* The check of one value of column_dict: the exception it raises, "" when none.
InvalidValue(v) ==
    IF v.type /= "tuple" THEN "TypeError"
    ELSE IF Len(v.items) /= 2 THEN "ValueError"
    ELSE IF \E n \in 1..Len(v.items) : v.items[n].type = "list" THEN "TypeError"
    ELSE ""

\* _GLOBVAR[k] = v: an existing key keeps its place, a new key is appended.
SetItem(g, item) ==
    IF \E n \in 1..Len(g) : g[n].key = item.key
    THEN [n \in 1..Len(g) |-> IF g[n].key = item.key THEN item ELSE g[n]]
    ELSE Append(g, item)

\* for k, v in column_dict.items(): _GLOBVAR[k] = v, for the first n items.
RECURSIVE SetItems(_, _, _)
SetItems(g, d, n) == IF n = 0 THEN g ELSE SetItem(SetItems(g, d, n - 1), d[n])

\* The first item of column_dict whose value is invalid, 0 when there is none.
FirstInvalid(d) ==
    IF \A n \in 1..Len(d) : InvalidValue(d[n].value) = "" THEN 0
    ELSE CHOOSE n \in 1..Len(d) :
             /\ InvalidValue(d[n].value) /= ""
             /\ \A i \in 1..(n - 1) : InvalidValue(d[i].value) = ""

\* As update_globals, each value checked in the loop that stores it.
update_globals_one_loop(g, a, d) ==
    IF FirstInvalid(d) /= 0
    THEN [raised |-> InvalidValue(d[FirstInvalid(d)].value),
          globvar |-> SetItems(g, d, FirstInvalid(d) - 1),
          aliases |-> a]
    ELSE [raised |-> _populate_globals(SetItems(g, d, Len(d)), a).raised,
          globvar |-> SetItems(g, d, Len(d)),
          aliases |-> _populate_globals(SetItems(g, d, Len(d)), a).aliases]

\* update_globals(column_dict): every value is checked before any is stored.
update_globals(g, a, d) ==
    IF FirstInvalid(d) /= 0
    THEN [raised |-> InvalidValue(d[FirstInvalid(d)].value), globvar |-> g, aliases |-> a]
    ELSE [raised |-> _populate_globals(SetItems(g, d, Len(d)), a).raised,
          globvar |-> SetItems(g, d, Len(d)),
          aliases |-> _populate_globals(SetItems(g, d, Len(d)), a).aliases]

Init ==
    /\ pc = "start"
    /\ df = <<>>
    /\ project = None
    /\ interval = <<>>
    /\ k = 0
    /\ nrec = 0
    /\ df2 = <<>>
    /\ df3 = <<>>
    /\ df4 = <<>>
    /\ stub = 0
    /\ err = ""
    /\ calls = <<>>
    /\ vIndex = <<>>
    /\ vLines = <<>>
    /\ vRes = NoError
    /\ aggIn = <<>>
    /\ aggOut = <<>>
    /\ pctIn = <<>>
    /\ pctOut = <<>>
    /\ dIn = <<>>
    /\ dOut = <<>>
    /\ dMonths = <<>>
    /\ yIn = <<>>
    /\ yOut = <<>>
    /\ paIn = <<>>
    /\ paOut = <<>>
    /\ mIn = <<>>
    /\ mOut = <<>>
    /\ _GLOBVAR = DefaultGlobvar
    /\ aliases = Unpack(sorted_values(DefaultGlobvar))
    /\ gIn = <<>>
    /\ gErr = ""
    /\ gCalls = 0
    /\ wPc = "start"
    /\ wArgs = <<>>
    /\ wCall = <<>>
    /\ wFiles = {}
    /\ wErr = ""

GetPercentageSbu ==
    /\ pc = "cumulated"
    /\ df4' = get_percentage_sbu(df3)
    /\ df3' = Copied(df3, df4')
    /\ pc' = "percent"
    /\ UNCHANGED <<df, project, interval, k, nrec, df2, stub, err, calls>>
    /\ UNCHANGED unitVars

Next ==
    \/ YamlToPandas
    \/ AccinfoFails
    \/ GetSbuBegin
    \/ GetSbuUser
    \/ AccuseFails
    \/ GetSbuEnd
    \/ GetSbuPerProject
    \/ GetAgregatedSbu
    \/ GetPercentageSbu

Spec == Init /\ [][Next]_vars

(***************************************************************************)
(* validate_usernames called on its own, on any index and accinfo output.  *)
(***************************************************************************)
\* The indexes yaml_to_pandas builds: the usernames of a roster, sorted by project
\* and username.
RosterIndexes == {Index(yaml_to_pandas(y)) : y \in YamlFiles} \ {<<>>}

CallValidate ==
    /\ vIndex = <<>>
    /\ \E index \in RosterIndexes, out \in AccinfoOutputs :
          /\ vIndex' = index
          /\ vLines' = out
          /\ vRes' = validate_usernames(index, out)
    /\ UNCHANGED <<pipeVars, aggVars, pctVars, dateVars, yamlVars>>
    /\ UNCHANGED <<accuseVars, mergeVars, globVars, workflowVars>>

SpecValidate == Init /\ [][CallValidate]_vars

(***************************************************************************)
(* get_agregated_sbu called on its own, on any table of usage rows.        *)
(***************************************************************************)
Cells == {NaN} \cup {Num(h) : h \in 0..MaxHours}

\* A row as get_sbu and get_sbu_per_project leave it: its sum cell is the row total.
UsageRow(p, q, cells) ==
    [project |-> p, quota |-> Num(q), active |-> <<>>, month |-> cells,
     sum |-> Num(nansum(cells))]

AggTables ==
    {<<UsageRow("A", q, c)>> : q \in Quotas, c \in [1..NMonths -> Cells]}
        \cup {<<UsageRow("A", q, c1), UsageRow("B", q, c2)>> :
                 q \in Quotas, c1 \in [1..NMonths -> Cells], c2 \in [1..NMonths -> Cells]}

CallAgregated ==
    /\ aggIn = <<>>
    /\ \E t \in AggTables :
          /\ aggIn' = t
          /\ aggOut' = get_agregated_sbu(t)
    /\ UNCHANGED <<pipeVars, validateVars, pctVars, dateVars, yamlVars>>
    /\ UNCHANGED <<accuseVars, mergeVars, globVars, workflowVars>>

SpecAgg == Init /\ [][CallAgregated]_vars

(***************************************************************************)
(* get_percentage_sbu called on its own, on any cumulative table.          *)
(***************************************************************************)
PercentCells == {NaN, Num(0), Num(5), Num(125), Num(250), Num(1200)}

\* The tables get_agregated_sbu returns for one project row.
PercentTables ==
    {get_agregated_sbu(<<UsageRow("A", q, c)>>) : q \in Quotas, c \in [1..NMonths -> PercentCells]}

CallPercentage ==
    /\ pctIn = <<>>
    /\ \E t \in PercentTables :
          /\ pctIn' = t
          /\ pctOut' = [module |-> "dataframe_postprocess", table |-> get_percentage_sbu(t)]
    /\ UNCHANGED <<pipeVars, validateVars, aggVars, dateVars, yamlVars>>
    /\ UNCHANGED <<accuseVars, mergeVars, globVars, workflowVars>>

CallPercentageDataframe ==
    /\ pctIn = <<>>
    /\ \E t \in PercentTables :
          /\ pctIn' = t
          /\ pctOut' = [module |-> "dataframe", table |-> dataframe_get_percentage_sbu(t)]
    /\ UNCHANGED <<pipeVars, validateVars, aggVars, dateVars, yamlVars>>
    /\ UNCHANGED <<accuseVars, mergeVars, globVars, workflowVars>>

SpecPercentage == Init /\ [][CallPercentage \/ CallPercentageDataframe]_vars

(***************************************************************************)
(* get_date_range called on its own, called again on its own result, and   *)
(* the Month columns get_sbu allocates for the result.                     *)
(***************************************************************************)
CallDateRange ==
    /\ dIn = <<>>
    /\ \E today \in Todays, start \in DateInputs, end \in DateInputs :
          /\ dIn' = <<today, start, end>>
          /\ dOut' = <<get_date_range(today, start, end)>>
    /\ UNCHANGED dMonths
    /\ UNCHANGED <<pipeVars, validateVars, aggVars, pctVars, yamlVars>>
    /\ UNCHANGED <<accuseVars, mergeVars, globVars, workflowVars>>

CallDateRangeAgain ==
    /\ Len(dOut) = 1
    /\ dOut[1].raised = ""
    /\ dOut' = Append(dOut, get_date_range(dIn[1], StrBound(dOut[1].start), StrBound(dOut[1].end)))
    /\ UNCHANGED <<dIn, dMonths>>
    /\ UNCHANGED <<pipeVars, validateVars, aggVars, pctVars, yamlVars>>
    /\ UNCHANGED <<accuseVars, mergeVars, globVars, workflowVars>>

AllocateMonths ==
    /\ Len(dOut) >= 1
    /\ dMonths = <<>>
    /\ dOut[1].raised = ""
    /\ Parsable(dOut[1].start) /\ Parsable(dOut[1].end)
    /\ dMonths' = <<date_range(dOut[1].start, dOut[1].end)>>
    /\ UNCHANGED <<dIn, dOut>>
    /\ UNCHANGED <<pipeVars, validateVars, aggVars, pctVars, yamlVars>>
    /\ UNCHANGED <<accuseVars, mergeVars, globVars, workflowVars>>

SpecDates == Init /\ [][CallDateRange \/ CallDateRangeAgain \/ AllocateMonths]_vars

(***************************************************************************)
(* yaml_to_pandas called on its own, on any roster file; accinfo lists the  *)
(* users of the file, or prints nothing.                                   *)
(***************************************************************************)
CallYamlToPandas ==
    /\ yIn = <<>>
    /\ \E yaml \in RawYamlFiles, listed \in BOOLEAN :
          LET out == IF listed THEN <<Marker>> \o SortNames(ListedUsers(yaml)) ELSE <<>> IN
          /\ yIn' = yaml
          /\ yOut' = <<LoadRoster(yaml, out)>>
    /\ UNCHANGED <<pipeVars, validateVars, aggVars, pctVars, dateVars>>
    /\ UNCHANGED <<accuseVars, mergeVars, globVars, workflowVars>>

SpecYaml == Init /\ [][CallYamlToPandas]_vars

(***************************************************************************)
(* The run against stub commands: accinfo lists the users of the roster,   *)
(* accuse reports the same usage for every user and every month.           *)
(***************************************************************************)
StubRates == {1, 100}

StubAccinfo(rows) == <<Marker>> \o Index(rows)

\* The data rows of the stub's accuse output for a user of project p over n months.
StubAccuse(p, n, hours) ==
    [m \in 1..n |-> [Month |-> m, Account |-> p, used |-> hours * SecondsPerHour, rest |-> 0]]

StubLoad ==
    /\ pc = "start"
    /\ \E yaml \in YamlFiles :
          LET rows == yaml_to_pandas(yaml) IN
          /\ rows /= <<>>
          /\ ~validate_usernames(Index(rows), StubAccinfo(rows)).raised
          /\ df' = rows
    /\ calls' = Append(calls, <<"accinfo">>)
    /\ pc' = "loaded"
    /\ UNCHANGED <<project, interval, k, nrec, df2, df3, df4, stub, err>>
    /\ UNCHANGED unitVars

StubBegin ==
    /\ pc = "loaded"
    /\ \E n \in 1..MaxStubMonths, h \in StubRates :
          /\ df' = AddColumns(df, n)
          /\ stub' = h
    /\ project' = None
    /\ interval' = <<NoneBound, NoneBound>>
    /\ k' = 1
    /\ pc' = "collect"
    /\ UNCHANGED <<nrec, df2, df3, df4, err, calls>>
    /\ UNCHANGED unitVars

StubUser ==
    /\ pc = "collect"
    /\ k <= Len(df)
    /\ calls' = Append(calls, <<"accuse", LoopUser(df, k)>>)
    /\ LET recs == parse_accuse(StubAccuse(df[k].project, Len(df[k].month), stub), project) IN
          /\ df' = Update(df, k, recs)
          /\ nrec' = nrec + Len(recs)
    /\ k' = k + 1
    /\ UNCHANGED <<pc, project, interval, df2, df3, df4, stub, err>>
    /\ UNCHANGED unitVars

NextStub ==
    \/ StubLoad
    \/ StubBegin
    \/ StubUser
    \/ GetSbuEnd
    \/ GetSbuPerProject
    \/ GetAgregatedSbu
    \/ GetPercentageSbu

SpecStub == Init /\ [][NextStub]_vars

(***************************************************************************)
(* parse_accuse called on its own.                                         *)
(***************************************************************************)
CallParseAccuse ==
    /\ paIn = <<>>
    /\ \E out \in AccuseOutputs, proj \in Projects \cup {None} :
          /\ paIn' = <<out, proj>>
          /\ paOut' = <<parse_accuse(out, proj)>>
    /\ UNCHANGED <<pipeVars, validateVars, aggVars, pctVars, dateVars, yamlVars>>
    /\ UNCHANGED <<mergeVars, globVars, workflowVars>>

SpecAccuse == Init /\ [][CallParseAccuse]_vars

(***************************************************************************)
(* The merge of get_sbu, df.update(parse_accuse(...)), called on its own   *)
(* on one row of the matrix.                                               *)
(***************************************************************************)
CallUpdate ==
    /\ mIn = <<>>
    /\ \E cells \in [1..NMonths -> Cells],
          recs \in {parse_accuse(out, None) : out \in AccuseOutputs} :
          /\ mIn' = <<cells, recs>>
          /\ mOut' = IF DuplicateColumns(recs)
                     THEN <<[raised |-> "ValueError", month |-> cells]>>
                     ELSE <<[raised |-> "",
                             month |-> Update(<<[month |-> cells]>>, 1, recs)[1].month]>>
    /\ UNCHANGED <<pipeVars, validateVars, aggVars, pctVars, dateVars, yamlVars>>
    /\ UNCHANGED <<accuseVars, globVars, workflowVars>>

SpecMerge == Init /\ [][CallUpdate]_vars

(***************************************************************************)
(* globvar.py: a sequence of update_globals calls.                         *)
(***************************************************************************)
\* The keys of the calls: two keys of _GLOBVAR and one that is not a key of it.
UpdateKeys == {"NAME", "TMP", "USER"}

\* The values of the calls: a tuple of two strings, a string, a tuple of three
\* strings, a tuple that holds a list.
ColumnValues ==
    {Column("username"), Str("name"),
     Tuple(<<Str("info"), Str("name"), Str("username")>>), Tuple(<<Str("info"), List>>)}

\* column_dict: one or two items, their keys distinct, in insertion order.
ColumnDicts ==
    LET Items == [key : UpdateKeys, value : ColumnValues]
    IN {<<i>> : i \in Items}
          \cup {<<p[1], p[2]>> : p \in {q \in Items \X Items : q[1].key /= q[2].key}}

UpdateGlobals ==
    /\ gCalls < MaxUpdates
    /\ \E d \in ColumnDicts :
          LET r == update_globals(_GLOBVAR, aliases, d)
          IN /\ gIn' = d
             /\ _GLOBVAR' = r.globvar
             /\ aliases' = r.aliases
             /\ gErr' = r.raised
    /\ gCalls' = gCalls + 1
    /\ UNCHANGED <<pipeVars, validateVars, aggVars, pctVars, dateVars, yamlVars>>
    /\ UNCHANGED <<accuseVars, mergeVars, workflowVars>>

SpecGlobals == Init /\ [][UpdateGlobals]_vars

(***************************************************************************)
(* entry_points.py: sbu_workflow                                           *)
(***************************************************************************)
\* The command-line values of the model and the __project__ key of the roster.
WorkflowArgs ==
    [project : {None, "A", "2019"}, start : {None, "2018"}, end : {None, "2020"},
     roster_project : {None, "A", "2019"}]

\* pd.date_range(sy, ey, ...) parses the bounds get_date_range made of what
\* get_sbu received: a year or None gives a date, a project code such as 'A'
\* does not.
IsDateBound(x) == x \in {None, "2018", "2019", "2020"}

WorkflowFails(e) ==
    /\ wPc' = "failed"
    /\ wErr' = e

\* df1, _project = sbu.yaml_to_pandas(filename)
WorkflowLoad ==
    /\ wPc = "start"
    /\ \E a \in WorkflowArgs : wArgs' = <<a>>
    /\ wPc' = "loaded"
    /\ UNCHANGED <<wCall, wFiles, wErr>>
    /\ UNCHANGED <<pipeVars, validateVars, aggVars, pctVars, dateVars, yamlVars>>
    /\ UNCHANGED <<accuseVars, mergeVars, globVars>>

\* yaml_to_pandas raises.
WorkflowLoadFails ==
    /\ wPc = "start"
    /\ \E a \in WorkflowArgs : wArgs' = <<a>>
    /\ \E e \in {"KeyError", "ValueError", "CalledProcessError"} : WorkflowFails(e)
    /\ UNCHANGED <<wCall, wFiles>>
    /\ UNCHANGED <<pipeVars, validateVars, aggVars, pctVars, dateVars, yamlVars>>
    /\ UNCHANGED <<accuseVars, mergeVars, globVars>>

\* `if project is _project is None: raise TypeError ... elif project is None:
\* project = _project`
ResolvedProject(a) == IF a.project = None THEN a.roster_project ELSE a.project

\* sbu.get_sbu(df1, project, start, end) against the signature
\* get_sbu(df, start, end, project): the parameters as the call binds them.
GetSbuCall(a) == [start |-> ResolvedProject(a), end |-> a.start, project |-> a.end]

\* The project check, get_sbu and the three transforms.
WorkflowTables ==
    /\ wPc = "loaded"
    /\ IF ResolvedProject(wArgs[1]) = None
       THEN WorkflowFails("TypeError") /\ UNCHANGED wCall
       ELSE /\ wCall' = <<GetSbuCall(wArgs[1])>>
            /\ IF IsDateBound(wCall'[1].start) /\ IsDateBound(wCall'[1].end)
               THEN \/ wPc' = "tables" /\ UNCHANGED wErr
                    \/ WorkflowFails("CalledProcessError")
               ELSE WorkflowFails("ValueError")
    /\ UNCHANGED <<wArgs, wFiles>>
    /\ UNCHANGED <<pipeVars, validateVars, aggVars, pctVars, dateVars, yamlVars>>
    /\ UNCHANGED <<accuseVars, mergeVars, globVars>>

\* The figure: construct_filename, the two plots, savefig(filename.format('png')).
WorkflowFigure ==
    /\ wPc = "tables"
    /\ wFiles' = wFiles \cup {"png"}
    /\ wPc' = "figure"
    /\ UNCHANGED <<wArgs, wCall, wErr>>
    /\ UNCHANGED <<pipeVars, validateVars, aggVars, pctVars, dateVars, yamlVars>>
    /\ UNCHANGED <<accuseVars, mergeVars, globVars>>

\* A step of the figure raises: nothing was written.
WorkflowFigureFails ==
    /\ wPc = "tables"
    /\ WorkflowFails("Exception")
    /\ UNCHANGED <<wArgs, wCall, wFiles>>
    /\ UNCHANGED <<pipeVars, validateVars, aggVars, pctVars, dateVars, yamlVars>>
    /\ UNCHANGED <<accuseVars, mergeVars, globVars>>

\* The spreadsheet: the four tables concatenated, to_excel(filename.format('xlsx')).
WorkflowSpreadsheet ==
    /\ wPc = "figure"
    /\ wFiles' = wFiles \cup {"xlsx"}
    /\ wPc' = "done"
    /\ UNCHANGED <<wArgs, wCall, wErr>>
    /\ UNCHANGED <<pipeVars, validateVars, aggVars, pctVars, dateVars, yamlVars>>
    /\ UNCHANGED <<accuseVars, mergeVars, globVars>>

\* A step of the spreadsheet raises, to_excel for one: the figure stays on disk.
WorkflowSpreadsheetFails ==
    /\ wPc = "figure"
    /\ WorkflowFails("Exception")
    /\ UNCHANGED <<wArgs, wCall, wFiles>>
    /\ UNCHANGED <<pipeVars, validateVars, aggVars, pctVars, dateVars, yamlVars>>
    /\ UNCHANGED <<accuseVars, mergeVars, globVars>>

NextWorkflow ==
    \/ WorkflowLoad
    \/ WorkflowLoadFails
    \/ WorkflowTables
    \/ WorkflowFigure
    \/ WorkflowFigureFails
    \/ WorkflowSpreadsheet
    \/ WorkflowSpreadsheetFails

SpecWorkflow == Init /\ [][NextWorkflow]_vars

(***************************************************************************)
(* The claims.                                                             *)
(***************************************************************************)
Built == pc \in {"built", "rolled", "cumulated", "percent"}
Rolled == pc \in {"rolled", "cumulated", "percent"}

\* The positions of the user rows of the matrix: every row but the last, 'sum'.
UserRows == 1..(Len(df) - 1)
SumRow == df[Len(df)]

\* c[1] + ... + c[n], a NaN cell counted as zero.
RECURSIVE Total(_, _)
Total(c, n) ==
    IF n = 0 THEN 0
    ELSE Total(c, n - 1) + (IF c[n] = NaN THEN 0 ELSE c[n][1])

\* The quota the roster gives project p.
QuotaOfProject(p) ==
    LET i == CHOOSE j \in UserRows : df[j].project = p IN df[i].quota[1]

RECURSIVE SumOfQuotas(_)
SumOfQuotas(P) ==
    IF P = {} THEN 0
    ELSE LET p == CHOOSE x \in P : TRUE IN QuotaOfProject(p) + SumOfQuotas(P \ {p})

\* C1: after get_sbu the quota_requested cell of the 'sum' row is the sum of the
\* quotas of the distinct projects of the roster, each project counted once however
\* many users belong to it.
C1_SumQuotaCountsEachProjectOnce ==
    Built => SumRow.quota = Num(SumOfQuotas({df[i].project : i \in UserRows}))

Called == vIndex /= <<>>
RosterSet == {vIndex[i] : i \in 1..Len(vIndex)}
\* The names accinfo lists under the marker: the non-empty lines after its first
\* occurrence.
ListedSet ==
    {vLines[i] : i \in {j \in 1..Len(vLines) :
        vLines[j] /= "" /\ \E m \in 1..(j - 1) : vLines[m] = Marker}}
SymmetricDifference == (RosterSet \ ListedSet) \cup (ListedSet \ RosterSet)
MessageNames ==
    {vRes.minus[i] : i \in 1..Len(vRes.minus)} \cup {vRes.plus[i] : i \in 1..Len(vRes.plus)}
MarkerListed == \E i \in 1..Len(vLines) : vLines[i] = Marker

\* C2 (as stated): validate_usernames raises if and only if the roster usernames and
\* the usernames accinfo lists under the marker differ as sets; when it raises, the
\* message names exactly the users in one set but not the other.
C2_RaisesIffSetsDifferNamingDifference ==
    Called =>
        /\ vRes.raised <=> RosterSet /= ListedSet
        /\ vRes.raised => MessageNames = SymmetricDifference

\* C2 (amended): when the accinfo output holds the marker line, validate_usernames
\* raises if and only if the two sets differ and the message then names exactly their
\* symmetric difference; when the marker line is missing it always raises, with a
\* parse-failure message that names no user.
C2_RaisesIffSetsDifferGivenMarker ==
    Called =>
        IF MarkerListed
        THEN /\ vRes.raised <=> RosterSet /= ListedSet
             /\ vRes.raised => ~vRes.parse /\ MessageNames = SymmetricDifference
        ELSE vRes.raised /\ vRes.parse /\ MessageNames = {}

\* A user missing on each side: the message names both.
C2_Witness ==
    /\ Called /\ MarkerListed /\ vRes.raised
    /\ RosterSet \ ListedSet /= {}
    /\ ListedSet \ RosterSet /= {}
    /\ MessageNames = SymmetricDifference

\* C3: after get_sbu a user row is active if and only if its total usage, the row's
\* 'sum' cell, is strictly greater than 1.0 hour.
C3_ActiveIffTotalAboveOneHour ==
    Built => \A i \in UserRows :
        /\ df[i].sum /= NaN
        /\ df[i].active <=> df[i].sum[1] > ActiveThreshold

\* A user with exactly 1.0 hour is inactive beside a user with more, who is active.
C3_Witness ==
    /\ pc = "built"
    /\ \E i, j \in UserRows :
          /\ df[i].sum = Num(ActiveThreshold) /\ ~df[i].active
          /\ df[j].sum = Num(ActiveThreshold + 1) /\ df[j].active

\* C4: in the matrix of get_sbu the 'sum' column of a user row is the sum of the row's
\* Month cells, 'no data' counted as zero; the 'sum' row holds for every Month column,
\* the 'sum' column included, the total of the user rows' cells; the ('sum', 'sum')
\* cell is the grand total over all users and months.
C4_SumColumnAndSumRowAreTotals ==
    Built =>
        LET n == Len(df) - 1
            col(m) == [i \in 1..n |-> df[i].month[m]]
            sums == [i \in 1..n |-> df[i].sum]
            rowTotals == [i \in 1..n |-> Num(Total(df[i].month, NMonths))]
        IN /\ SumRow.user = "sum"
           /\ \A i \in 1..n : df[i].sum = rowTotals[i]
           /\ \A m \in 1..NMonths : SumRow.month[m] = Num(Total(col(m), n))
           /\ SumRow.sum = Num(Total(sums, n))
           /\ SumRow.sum = Num(Total(rowTotals, n))

\* Two users with usage in the same month, one of them with a 'no data' month.
C4_Witness ==
    /\ pc = "built"
    /\ Len(df) = 3
    /\ df[1].month[1] = Num(1) /\ df[2].month[1] = Num(1)
    /\ df[1].month[2] = NaN /\ df[2].month[2] = Num(1)
    /\ SumRow.month[1] = Num(2)
    /\ SumRow.sum = Num(3)

\* C5: when the collector returned no usage record for any user, every Month cell of
\* every user row is 'no data', the 'sum' column is 0 and is_active is false for all.
C5_NoRecordsGiveNoDataZeroSumInactive ==
    (Built /\ nrec = 0) => \A i \in UserRows :
        /\ \A m \in 1..NMonths : df[i].month[m] = NaN
        /\ df[i].sum = Num(0)
        /\ df[i].active = FALSE

\* A matrix of two users built without any record.
C5_Witness ==
    /\ pc = "built" /\ nrec = 0
    /\ Len(df) = 3
    /\ Len(calls) = 3

\* The positions of the user rows of the matrix that belong to project p.
MembersOf(p) == {i \in UserRows : df[i].project = p}
ProjectRows == {g \in 1..Len(df2) : df2[g].project /= "sum"}
Elements(t) == {t[i] : i \in 1..Len(t)}

\* The total of Month column m over the users in U, 'no data' counted as zero.
RECURSIVE MonthTotal(_, _)
MonthTotal(U, m) ==
    IF U = {} THEN 0
    ELSE LET i == CHOOSE x \in U : TRUE
         IN (IF df[i].month[m] = NaN THEN 0 ELSE df[i].month[m][1]) + MonthTotal(U \ {i}, m)

\* C6: get_sbu_per_project returns exactly one row per distinct project code of the
\* matrix plus one 'sum' row, and each Month cell of a project row is the sum of that
\* month's cells over all users of the project ('no data' counted as zero).
C6_OneRowPerProjectWithMonthTotals ==
    Rolled =>
        /\ {df2[g].project : g \in 1..Len(df2)} = {df[i].project : i \in UserRows} \cup {"sum"}
        /\ \A g, h \in 1..Len(df2) : df2[g].project = df2[h].project => g = h
        /\ \A g \in ProjectRows : \A m \in 1..NMonths :
              df2[g].month[m] = Num(MonthTotal(MembersOf(df2[g].project), m))

\* Two users of one project with usage in the same month: one row holding their sum.
C6_Witness ==
    /\ pc = "rolled"
    /\ Len(df) = 3 /\ df[1].project = df[2].project
    /\ df[1].month[1] = Num(1) /\ df[2].month[1] = Num(1)
    /\ Len(df2) = 2
    /\ df2[1].month[1] = Num(2)

\* C7 (as stated): the is_active cell of a project row is the collection of the
\* usernames of exactly the active members of the project, the is_active cell of the
\* 'sum' row is the empty tuple, and the quota cell of a project row is the project's
\* quota.
C7_ActiveCellHoldsUsernames ==
    Rolled => \A g \in 1..Len(df2) :
        IF df2[g].project = "sum" THEN df2[g].active = <<>>
        ELSE LET act == {i \in MembersOf(df2[g].project) : df[i].active}
             IN /\ Elements(df2[g].active) = {df[i].user : i \in act}
                /\ Len(df2[g].active) = Cardinality(act)
                /\ \A i \in MembersOf(df2[g].project) : df2[g].quota = df[i].quota

\* C7 (amended): the is_active cell of a project row is the tuple of the display names
\* (the roster's name field) of exactly the active members of the project; the rest as
\* stated.
C7_ActiveCellHoldsDisplayNames ==
    Rolled => \A g \in 1..Len(df2) :
        IF df2[g].project = "sum" THEN df2[g].active = <<>>
        ELSE LET act == {i \in MembersOf(df2[g].project) : df[i].active}
             IN /\ Elements(df2[g].active) = {df[i].name : i \in act}
                /\ Len(df2[g].active) = Cardinality(act)
                /\ \A i \in MembersOf(df2[g].project) : df2[g].quota = df[i].quota

\* A project of two members, one active and one not.
C7_Witness ==
    /\ pc = "rolled"
    /\ Len(df) = 3 /\ df[1].project = df[2].project
    /\ df[1].active /\ ~df[2].active
    /\ df2[1].active = <<df[1].name>>
    /\ df2[1].quota = df[2].quota

AggCalled == aggIn /= <<>>

\* C8 (as stated): every Month cell of the result of get_agregated_sbu is the sum of the
\* row's own Month cells from the first month up to and including that month.
C8_CumulativeIsRunningSum ==
    AggCalled => \A i \in 1..Len(aggIn) : \A m \in 1..NMonths :
        aggOut[i].month[m] = Num(Total(aggIn[i].month, m))

\* C8 (amended): every Month cell of the result whose input cell is not 'no data' is
\* the sum of the row's own Month cells up to and including that month, 'no data'
\* counted as zero; a 'no data' cell of the input is 'no data' in the result.
C8_CumulativeIsRunningSumOfData ==
    AggCalled => \A i \in 1..Len(aggIn) : \A m \in 1..NMonths :
        aggOut[i].month[m] =
            IF aggIn[i].month[m] = NaN THEN NaN ELSE Num(Total(aggIn[i].month, m))

\* One row accumulates 1, 1 to 1, 2; the other keeps a 'no data' month after usage
\* and sums across a 'no data' month.
C8_Witness ==
    /\ AggCalled /\ Len(aggIn) = 2
    /\ aggIn[1].month[1] = Num(1) /\ aggIn[1].month[2] = Num(1)
    /\ aggOut[1].month[2] = Num(2)
    /\ aggIn[2].month[1] = NaN /\ aggIn[2].month[2] = Num(1)
    /\ aggOut[2].month[1] = NaN /\ aggOut[2].month[2] = Num(1)

\* C9: a project row whose Month cells are all 'no data' in the usage matrix has
\* 'no data' in every Month cell of the cumulative table.
C9_NoDataRowStaysNoData ==
    pc \in {"cumulated", "percent"} => \A g \in ProjectRows :
        (\A i \in MembersOf(df3[g].project) : \A m \in 1..NMonths : df[i].month[m] = NaN)
            => \A m \in 1..NMonths : df3[g].month[m] = NaN

\* C10 (as stated): in the result of get_agregated_sbu the 'sum' column of every row is
\* the cumulative value of the last month and is the row's 'sum' of the input table.
C10_SumIsLastCumulativeAndRowTotal ==
    AggCalled => \A i \in 1..Len(aggIn) :
        /\ aggOut[i].sum = aggOut[i].month[NMonths]
        /\ aggOut[i].sum = aggIn[i].sum

\* C10 (amended): the 'sum' column of every row is the cumulative value of the last
\* month; it is the row's 'sum' of the input table when the row's last month is not
\* 'no data', whatever its other months are, and 'no data' when the last month is.
C10_SumIsLastCumulativeAndTotalOfData ==
    AggCalled => \A i \in 1..Len(aggIn) :
        /\ aggOut[i].sum = aggOut[i].month[NMonths]
        /\ aggOut[i].sum = IF aggIn[i].month[NMonths] = NaN THEN NaN ELSE aggIn[i].sum

\* A row with usage in its first and last month, and a row whose first month is
\* 'no data': both keep their totals.
C10_Witness ==
    /\ AggCalled /\ Len(aggIn) = 2
    /\ aggIn[1].month[1] = Num(1) /\ aggIn[1].month[NMonths] = Num(1)
    /\ aggOut[1].sum = Num(Total(aggIn[1].month, NMonths))
    /\ aggOut[1].sum /= aggOut[1].month[1]
    /\ aggIn[2].month[1] = NaN /\ aggIn[2].month[NMonths] = Num(1)
    /\ aggOut[2].sum = aggIn[2].sum

PctCalled == pctIn /= <<>>

\* h is an integer nearest to n / d.
Nearest(h, n, d) == 2 * n - d <= 2 * h * d /\ 2 * h * d <= 2 * n + d

\* The floats a and b are the same number.
SameNumber(a, b) == a[1] * b[2] = b[1] * a[2]

\* C11 (as stated): get_percentage_sbu maps every cumulative Month cell c of a row with
\* quota q to 100 * c / q rounded to a whole number, so that 250 against 1000 yields 25.
C11_CellIsPercentOfQuota ==
    PctCalled => \A i \in 1..Len(pctIn) : \A m \in 1..NMonths :
        LET c == pctIn[i].month[m]
            out == pctOut.table[i].month[m]
        IN c /= NaN =>
            /\ out /= NaN
            /\ \E h \in 0..(out[1] + 1) :
                  SameNumber(out, Frac(h, 1)) /\ Nearest(h, PercentFactor * c[1], pctIn[i].quota[1])
            /\ (c = Num(250) /\ pctIn[i].quota = Num(1000)) => SameNumber(out, Frac(25, 1))

\* C11 (amended): the get_percentage_sbu the package exports (dataframe_postprocess.py)
\* maps every cumulative Month cell c of a row with quota q to the ratio c / q rounded
\* to two decimals, so that 250 against 1000 yields 0.25; the get_percentage_sbu of
\* dataframe.py maps it to 100 * c / q rounded to a whole number, 25.
C11_CellIsRatioOfQuotaToTwoDecimals ==
    PctCalled => \A i \in 1..Len(pctIn) : \A m \in 1..NMonths :
        LET c == pctIn[i].month[m]
            out == pctOut.table[i].month[m]
            q == pctIn[i].quota[1]
        IN IF c = NaN THEN out = NaN
           ELSE IF pctOut.module = "dataframe_postprocess"
           THEN /\ out[2] = 100
                /\ Nearest(out[1], 100 * c[1], q)
                /\ (c = Num(250) /\ q = 1000) => SameNumber(out, Frac(25, 100))
           ELSE /\ out[2] = 1
                /\ Nearest(out[1], 100 * c[1], q)
                /\ (c = Num(250) /\ q = 1000) => SameNumber(out, Frac(25, 1))

\* The exported function on a cumulative value of 250 against a quota of 1000: 0.25.
C11_Witness ==
    /\ PctCalled /\ pctOut.module = "dataframe_postprocess"
    /\ pctIn[1].quota = Num(1000)
    /\ pctIn[1].month[1] = Num(125) /\ pctIn[1].month[NMonths] = Num(250)
    /\ pctOut.table[1].month[NMonths] = Frac(25, 100)

\* The example run: one project of quota 1000 with two users, the stub accounting
\* tool returning 100 hours per user and month for 3 months, all four tables built.
StubExample ==
    /\ pc = "percent" /\ stub = 100
    /\ Len(df) = 3 /\ df[1].project = df[2].project /\ df[1].quota = Num(1000)
    /\ Len(df[1].month) = 3

\* C12 (as stated): the example run yields a matrix sum of 600 per user (1200 in
\* total), a rollup total of 1200, a cumulative final-month value of 1200 and a
\* final-month percentage of 120%.
C12_ExampleTotalsAsStated ==
    StubExample =>
        /\ df[1].sum = Num(600) /\ df[2].sum = Num(600) /\ SumRow.sum = Num(1200)
        /\ df2[1].sum = Num(1200) /\ df2[2].sum = Num(1200)
        /\ df3[1].month[3] = Num(1200)
        /\ SameNumber(df4[1].month[3], Frac(120, 1))

\* C12 (amended): the example run yields a matrix sum of 300 per user (600 in total), a
\* rollup total of 600, a cumulative final-month value of 600 and a final-month value
\* of the percentage table of 0.6, 60% of the quota.
C12_ExampleTotals ==
    StubExample =>
        /\ \A i \in 1..2 : \A m \in 1..3 : df[i].month[m] = Num(100)
        /\ df[1].sum = Num(300) /\ df[2].sum = Num(300) /\ SumRow.sum = Num(600)
        /\ df2[1].sum = Num(600) /\ df2[2].sum = Num(600)
        /\ df3[1].month = <<Num(200), Num(400), Num(600)>>
        /\ df4[1].month[3] = Frac(60, 100)

C12_Witness ==
    /\ StubExample
    /\ Len(calls) = 3
    /\ df4[1].sum = Frac(60, 100)

DateCalled == dIn /= <<>>
Resolved == DateCalled /\ dOut[1].raised = ""
D01 == <<0, 1>>
Y2019 == <<2, 0, 1, 9>>

\* What the separators of a string bound decide, given the default month.
BySeparators(f, default_month) ==
    IF Len(f) = 1 THEN <<D01, default_month, f[1]>>
    ELSE IF Len(f) = 2 THEN <<D01, f[1], f[2]>>
    ELSE f

\* C13: for a string bound the number of '-' separators alone decides the result of
\* get_date_range: none gives 01-<default month>-<input> ("2019" as start gives
\* 01-01-2019), one gives 01-<input> ("05-2019" gives 01-05-2019), two return the input
\* unchanged ("22-10-2018" gives 22-10-2018).
C13_SeparatorsDecideResult ==
    Resolved =>
        /\ dIn[2].type = "str" =>
              /\ dOut[1].start = BySeparators(dIn[2].fields, D01)
              /\ dIn[2].fields = <<Y2019>> => dOut[1].start = <<D01, D01, Y2019>>
              /\ dIn[2].fields = <<<<0, 5>>, Y2019>> => dOut[1].start = <<D01, <<0, 5>>, Y2019>>
              /\ Len(dIn[2].fields) = 3 => dOut[1].start = dIn[2].fields
        /\ dIn[3].type = "str" =>
              dOut[1].end = BySeparators(dIn[3].fields, <<dIn[1].month \div 10, dIn[1].month % 10>>)

\* "2019" as start and "22-10-2018" as end, resolved in November.
C13_Witness ==
    /\ Resolved /\ dIn[1].month = 11
    /\ dIn[2] = StrBound(<<Y2019>>) /\ dOut[1].start = <<D01, D01, Y2019>>
    /\ dIn[3] = StrBound(<<<<2, 2>>, <<1, 0>>, <<2, 0, 1, 8>>>>)
    /\ dOut[1].end = <<<<2, 2>>, <<1, 0>>, <<2, 0, 1, 8>>>>

\* C14: get_date_range called with an absent start returns as start the first day of
\* the current year, 01-01-<current year>, for every current date.
C14_AbsentStartIsFirstDayOfCurrentYear ==
    (Resolved /\ dIn[2] = NoneBound) => dOut[1].start = <<D01, D01, Digits(dIn[1].year)>>

\* C15: get_date_range is idempotent on one fixed current date: called again on the
\* pair it returned, it returns that pair.
C15_DateRangeIdempotent ==
    Len(dOut) = 2 => dOut[2] = dOut[1]

\* An integer year and an absent end, resolved and resolved again.
C15_Witness ==
    /\ Len(dOut) = 2
    /\ dIn[2] = IntBound(2019) /\ dIn[3] = NoneBound
    /\ dOut[2].raised = ""
    /\ dOut[2].start = <<D01, D01, Y2019>>

\* A bound _parse_date rejects: a string with three or more separators, or a value that
\* is not None, an integer or a string.
InvalidBound(b) ==
    \/ b.type \notin {"NoneType", "int", "str"}
    \/ b.type = "str" /\ Len(b.fields) >= 4

\* C16: when a bound of the interval is a string with three or more '-' separators or
\* a value that is neither absent, an integer nor a string, get_sbu fails with a date
\* error before the accounting command has been invoked for any user and before the
\* roster table has been modified.
C16_BadBoundFailsBeforeCollection ==
    (interval /= <<>> /\ (InvalidBound(interval[1]) \/ InvalidBound(interval[2]))) =>
        /\ pc = "failed"
        /\ err \in {"ValueError", "TypeError"}
        /\ \A c \in 1..Len(calls) : calls[c][1] /= "accuse"
        /\ Len(df) >= 1
        /\ \A i \in 1..Len(df) :
              df[i].user /= "sum" /\ df[i].month = <<>> /\ df[i].sum = NaN /\ ~df[i].active

\* A run that loaded a roster and failed on a string with three separators as start,
\* and one that failed on an end of another type.
C16_Witness ==
    /\ pc = "failed" /\ interval /= <<>>
    /\ interval[1] = NoneBound /\ interval[2] = OtherBound
    /\ err = "TypeError"
    /\ Len(df) = 2
    /\ calls = <<<<"accinfo">>>>

IsDDMMYYYY(fields) == Widths(fields) = <<2, 2, 4>>

\* C17 (as stated): every pair get_date_range returns without error consists of two
\* strings in DD-MM-YYYY form, for every accepted input: absent, an integer year, or a
\* string with 0, 1 or 2 separators.
C17_ResultIsDDMMYYYY ==
    Resolved => IsDDMMYYYY(dOut[1].start) /\ IsDDMMYYYY(dOut[1].end)

\* A bound in one of the documented forms: absent, a four-digit integer year, or a
\* string written YYYY, MM-YYYY or DD-MM-YYYY.
DocumentedBound(b) ==
    \/ b.type = "NoneType"
    \/ b.type = "int" /\ b.value \in 1000..9999
    \/ b.type = "str" /\ Widths(b.fields) \in {<<4>>, <<2, 4>>, <<2, 2, 4>>}

\* C17 (amended): when both bounds are absent, a four-digit integer year or a string
\* written YYYY, MM-YYYY or DD-MM-YYYY, get_date_range returns without error two strings
\* in DD-MM-YYYY form; any other string with 0, 1 or 2 separators is accepted too and
\* is passed into the result as it is written.
C17_DocumentedInputGivesDDMMYYYY ==
    DateCalled =>
        /\ (DocumentedBound(dIn[2]) /\ DocumentedBound(dIn[3])) =>
              /\ dOut[1].raised = ""
              /\ IsDDMMYYYY(dOut[1].start) /\ IsDDMMYYYY(dOut[1].end)
        /\ (Resolved /\ dIn[2].type = "str") =>
              \A i \in 1..Len(dIn[2].fields) :
                  dOut[1].start[3 - Len(dIn[2].fields) + i] = dIn[2].fields[i]

\* An integer year as start and an absent end, resolved in January.
C17_Witness ==
    /\ Resolved /\ dIn[1].month = 1
    /\ dIn[2] = IntBound(2019) /\ dIn[3] = NoneBound
    /\ dOut[1].start = <<D01, D01, Y2019>>
    /\ dOut[1].end = <<D01, D01, <<2, 0, 2, 0>>>>

\* The date a resolved bound names: day-month-year, or year-month-day when the year is
\* written first.
NamedDate(fields) ==
    IF Widths(fields) = <<4, 2, 2>>
    THEN [year |-> Val(fields[1]), month |-> Val(fields[2]), day |-> Val(fields[3])]
    ELSE [year |-> Val(fields[3]), month |-> Val(fields[2]), day |-> Val(fields[1])]

\* C18: the Month columns get_sbu allocates are exactly one column per calendar month
\* from the month of the resolved start date to the month of the resolved end date,
\* both included, in chronological order, also when the start date is not the first
\* day of its month (22-10-2018 still allocates 2018-10).
C18_OneColumnPerMonthOfInterval ==
    dMonths /= <<>> =>
        LET first == MonthNumber(NamedDate(dOut[1].start))
            last == MonthNumber(NamedDate(dOut[1].end))
        IN /\ dMonths[1] = [i \in 1..(last - first + 1) |-> MonthLabel(first + i - 1)]
           /\ (dOut[1].start = <<<<2, 2>>, <<1, 0>>, <<2, 0, 1, 8>>>> /\ last >= first) =>
                  dMonths[1][1] = <<2018, 10>>

YamlCalled == yIn /= <<>>
YamlRows == yOut[1].rows

Entry(code, q, users) ==
    [code |-> code, quota |-> [kind |-> "number", v |-> q], has_users |-> TRUE, users |-> users]

\* C19: yaml_to_pandas returns one row per username of the roster file, each carrying
\* the quota, display name and project code of a project it is listed under, the rows
\* ordered ascending by (project code, username); projects A (quota 1000, user u1) and
\* B (quota 500, user u2) yield exactly 2 rows in the order u1, u2.
C19_OneRowPerUserSortedByProjectAndUser ==
    (YamlCalled /\ yOut[1].raised = "") =>
        /\ {YamlRows[i].user : i \in 1..Len(YamlRows)} = UNION {yIn[j].users : j \in 1..Len(yIn)}
        /\ \A i, j \in 1..Len(YamlRows) : YamlRows[i].user = YamlRows[j].user => i = j
        /\ \A i \in 1..Len(YamlRows) :
              /\ \E j \in 1..Len(yIn) :
                    /\ YamlRows[i].user \in yIn[j].users
                    /\ YamlRows[i].project = yIn[j].code
                    /\ YamlRows[i].quota =
                          IF yIn[j].quota.kind = "number" THEN Num(yIn[j].quota.v) ELSE NaN
              /\ YamlRows[i].name = DisplayName(YamlRows[i].user)
        /\ \A i, j \in 1..Len(YamlRows) :
              i < j =>
                 \/ Rank(YamlRows[i].project) < Rank(YamlRows[j].project)
                 \/ /\ YamlRows[i].project = YamlRows[j].project
                    /\ Rank(YamlRows[i].user) < Rank(YamlRows[j].user)
        /\ (\/ yIn = <<Entry("A", 1000, {"u1"}), Entry("B", 500, {"u2"})>>
            \/ yIn = <<Entry("B", 500, {"u2"}), Entry("A", 1000, {"u1"})>>) =>
              /\ Len(YamlRows) = 2
              /\ YamlRows[1].user = "u1" /\ YamlRows[1].quota = Num(1000)
              /\ YamlRows[2].user = "u2" /\ YamlRows[2].quota = Num(500)

\* The example roster, project B written first.
C19_Witness ==
    /\ YamlCalled /\ yOut[1].raised = ""
    /\ yIn = <<Entry("B", 500, {"u2"}), Entry("A", 1000, {"u1"})>>
    /\ Len(YamlRows) = 2
    /\ YamlRows[1].project = "A" /\ YamlRows[2].project = "B"

LacksUsers == \E i \in 1..Len(yIn) : ~yIn[i].has_users
NonNumericQuota == \E i \in 1..Len(yIn) : yIn[i].quota.kind /= "number"
\* A project with text as quota is the one a row of the table is built from.
TextQuotaInTable ==
    \E u \in UNION {yIn[j].users : j \in 1..Len(yIn)} :
        \E i \in 1..Len(yIn) :
            /\ u \in yIn[i].users /\ yIn[i].quota.kind = "text"
            /\ \A j \in (i + 1)..Len(yIn) : u \notin yIn[j].users

\* C20 (as stated): if a project of the roster lacks a 'users' mapping or its quota is
\* not numeric, the run fails with an error raised before any external command has
\* been invoked.
C20_MalformedRosterFailsBeforeCommands ==
    (YamlCalled /\ (LacksUsers \/ NonNumericQuota)) =>
        yOut[1].raised /= "" /\ yOut[1].calls = <<>>

\* C20 (amended): if a project of the roster lacks a 'users' mapping, yaml_to_pandas
\* fails with KeyError, and if every project has one and the quota of a project that a
\* row of the table is built from is text that is not a number, it fails with
\* ValueError, in both cases before any external command has been invoked; a quota
\* that is null, or that belongs to a project no row is built from, does not make the
\* call fail: accinfo is invoked.
C20_UnusableRosterFailsBeforeCommands ==
    YamlCalled =>
        /\ LacksUsers => yOut[1].raised = "KeyError" /\ yOut[1].calls = <<>>
        /\ (~LacksUsers /\ TextQuotaInTable) =>
              yOut[1].raised = "ValueError" /\ yOut[1].calls = <<>>
        /\ (~LacksUsers /\ ~TextQuotaInTable /\ UNION {yIn[j].users : j \in 1..Len(yIn)} /= {}) =>
              yOut[1].calls = <<<<"accinfo">>>>

\* A roster whose second project has no 'users' mapping, and whose first is in order.
C20_Witness ==
    /\ YamlCalled /\ Len(yIn) = 2
    /\ yIn[1] = Entry("A", 1000, {"u1"})
    /\ ~yIn[2].has_users
    /\ yOut[1].raised = "KeyError" /\ yOut[1].calls = <<>>

(***************************************************************************)
(* parse_accuse and the merge.                                             *)
(***************************************************************************)
AccuseCalled == paIn /= <<>>

\* The positions of the rows of the accuse output booked on account p.
RowsOfAccount(out, p) == {i \in 1..Len(out) : out[i].Account = p}

\* C22: when parse_accuse is given a project filter, no row of the accuse
\* output whose Account differs from that project contributes to the returned
\* usage: every returned value is the net hours of a row of that project, in
\* the month of that row, and no more values are returned than the project
\* has rows.
C22_OnlyRowsOfProjectContribute ==
    (AccuseCalled /\ paIn[2] /= None) =>
        LET out == paIn[1]
            ret == paOut[1]
        IN /\ \A n \in 1..Len(ret) :
                 \E i \in RowsOfAccount(out, paIn[2]) :
                     /\ out[i].Month = ret[n].Month
                     /\ NetHours(out[i]) = ret[n].hours
           /\ Len(ret) <= Cardinality(RowsOfAccount(out, paIn[2]))

\* Rows of two accounts in different months, filtered by one of the accounts.
C22_Witness ==
    /\ AccuseCalled
    /\ paIn[2] = "A"
    /\ Len(paIn[1]) = 2
    /\ paIn[1][1].Account = "A" /\ paIn[1][1].Month = 1 /\ NetHours(paIn[1][1]) = 1
    /\ paIn[1][2].Account = "B" /\ paIn[1][2].Month = 2 /\ NetHours(paIn[1][2]) = 1
    /\ paOut[1] = <<[Month |-> 1, hours |-> 1]>>

\* C30: when parse_accuse is given a project filter, every row of the accuse
\* output whose Account equals that project is kept and contributes its net
\* hours to the returned usage, also when the output holds a row for the same
\* month under another account.
C30_EveryRowOfProjectIsKept ==
    (AccuseCalled /\ paIn[2] /= None) =>
        LET out == paIn[1]
            ret == paOut[1]
        IN \A i \in RowsOfAccount(out, paIn[2]) :
               \E n \in 1..Len(ret) :
                   /\ ret[n].Month = out[i].Month
                   /\ ret[n].hours = NetHours(out[i])

MergeCalled == mIn /= <<>>

\* The positions of the records of the usage that address month m.
RecordsOfMonth(recs, m) == {j \in 1..Len(recs) : recs[j].Month = m}

Latest(S) == CHOOSE j \in S : \A i \in S : i <= j

\* C23: merging the collected records into the matrix is an upsert by
\* (username, month): after the merge a cell a record addresses holds the net
\* hours of that record, never its sum with the value the cell held; when two
\* records address the same cell the later one overwrites the earlier one; a
\* cell no record addresses keeps its value.
C23_MergeIsUpsertLaterRecordWins ==
    MergeCalled =>
        LET cells == mIn[1]
            recs == mIn[2]
        IN /\ mOut[1].raised = ""
           /\ \A m \in 1..NMonths :
                 mOut[1].month[m] =
                     IF RecordsOfMonth(recs, m) = {} THEN cells[m]
                     ELSE Num(recs[Latest(RecordsOfMonth(recs, m))].hours)

(***************************************************************************)
(* globvar.py                                                              *)
(***************************************************************************)
\* The value _GLOBVAR holds for key K.
GlobvarOf(g, K) == g[CHOOSE n \in 1..Len(g) : g[n].key = K].value

InvalidValues(d) == {InvalidValue(d[n].value) : n \in 1..Len(d)} \ {""}

\* C27: update_globals raises TypeError when a value of column_dict is not a
\* tuple of hashables and ValueError when a tuple's length is not 2, and the
\* call then changes nothing: _GLOBVAR and every alias keep their values, also
\* for the valid items of the same column_dict.
C27_InvalidValueRaisesAndChangesNothing ==
    [][(gCalls' = gCalls + 1 /\ InvalidValues(gIn') /= {}) =>
          /\ gErr' \in InvalidValues(gIn')
          /\ _GLOBVAR' = _GLOBVAR
          /\ aliases' = aliases]_vars

\* A call whose first item is valid and whose second item is not.
C27_Witness ==
    /\ gCalls = 1
    /\ gIn = <<[key |-> "NAME", value |-> Column("username")],
               [key |-> "TMP", value |-> Tuple(<<Str("info"), Str("name"), Str("username")>>)]>>
    /\ gErr = "ValueError"
    /\ _GLOBVAR = DefaultGlobvar
    /\ aliases["NAME"] = Column("name")

\* C28: after a successful update_globals each alias equals _GLOBVAR[its own
\* name]: the alias named by the updated key holds the new value and every
\* other alias keeps the value it had.
C28_AliasEqualsGlobvarOfItsName ==
    (gCalls > 0 /\ gErr = "") =>
        \A n \in 1..Len(GlobKeys) : aliases[GlobKeys[n]] = GlobvarOf(_GLOBVAR, GlobKeys[n])

(***************************************************************************)
(* entry_points.py                                                         *)
(***************************************************************************)
\* C29: sbu_workflow hands its arguments to get_sbu in their roles: the
\* interval start of the command line is the start bound, the interval end
\* the end bound, and the resolved project code (the command-line project,
\* else the default project of the roster) the project filter.
C29_ArgumentsReachBuilderInTheirRoles ==
    wCall /= <<>> =>
        /\ wCall[1].start = wArgs[1].start
        /\ wCall[1].end = wArgs[1].end
        /\ wCall[1].project = ResolvedProject(wArgs[1])

\* C25: in sbu_workflow no output file is written unless the whole run
\* succeeds: when a step of the run has failed, a step after the four tables
\* included, no output file of the run is on disk.
C25_NoOutputFileOfFailedRun ==
    wPc = "failed" => wFiles = {}

(***************************************************************************)
(* The commands of a run and the tables the transforms are given.          *)
(***************************************************************************)
\* C21: yaml_to_pandas is a pure parse: loading a roster reads the roster
\* file only and invokes no external command.
C21_LoaderInvokesNoCommand ==
    YamlCalled => yOut[1].calls = <<>>

\* C21, amended: yaml_to_pandas invokes no command but accinfo, and accinfo at
\* most once: once the roster has parsed into a table the usernames of the
\* table are validated against the output of accinfo, so a table is returned
\* only after exactly one accinfo call.
C21_LoaderInvokesAccinfoOnceToValidate ==
    YamlCalled =>
        /\ yOut[1].calls \in {<<>>, <<<<"accinfo">>>>}
        /\ yOut[1].raised = "" => yOut[1].calls = <<<<"accinfo">>>>

\* A roster of two users loaded: accinfo was invoked once.
C21_Witness ==
    /\ YamlCalled /\ yOut[1].raised = ""
    /\ Len(YamlRows) = 2
    /\ yOut[1].calls = <<<<"accinfo">>>>

\* The accuse invocations of the run, in order.
AccuseCalls ==
    LET IsAccuse(c) == c[1] = "accuse" IN SelectSeq(calls, IsAccuse)

\* The number of user rows of the matrix: the 'sum' row is not one.
RosterUsers == IF Built THEN Len(df) - 1 ELSE Len(df)

\* C24: during one build of the matrix accuse is invoked sequentially, at most
\* once per roster user and in the order of the roster rows; when an invocation
\* fails it is not retried, no invocation for a later user takes place and the
\* build ends with the error; the build completes only if accuse was invoked
\* exactly once for every user.
C24_AccuseOncePerUserInRowOrderNoRetry ==
    /\ [](/\ Len(AccuseCalls) <= RosterUsers
          /\ \A i \in 1..Len(AccuseCalls) : AccuseCalls[i][2] = df[i].user
          /\ pc = "collect" => Len(AccuseCalls) = k - 1
          /\ Built => Len(AccuseCalls) = RosterUsers /\ err = "")
    /\ [][pc = "failed" => calls' = calls /\ pc' = "failed" /\ err' = err]_vars

\* accuse failed for the first of two users: it was not invoked for the second.
C24_Witness ==
    /\ pc = "failed" /\ err = "CalledProcessError"
    /\ Len(df) = 2
    /\ calls = <<<<"accinfo">>, <<"accuse", df[1].user>>>>

\* C26: get_sbu_per_project, get_agregated_sbu and get_percentage_sbu are
\* pure: each returns a new table and leaves every cell, row and column of the
\* table it was given unchanged.
C26_TransformsLeaveTheirInputUnchanged ==
    [][/\ (pc = "built" /\ pc' = "rolled") => df' = df
       /\ (pc = "rolled" /\ pc' = "cumulated") => (df2' = df2 /\ df' = df)
       /\ (pc = "cumulated" /\ pc' = "percent") => (df3' = df3 /\ df2' = df2 /\ df' = df)]_vars

\* The three transforms have run and each returned a table unlike its input.
C26_Witness ==
    /\ pc = "percent"
    /\ Len(df2) < Len(df)
    /\ df3 /= df2
    /\ df4 /= df3

====
